---- MODULE Spec2Model ----
(***************************************************************************)
(* The hint / reveal progression engine of the "Before & After" puzzle     *)
(* game: the server-side hint policy (backend/routes/puzzles.js) and the   *)
(* client-side reveal state tracker (the game client, unnamed/part_001).   *)
(*                                                                         *)
(* Strings are sequences of one-character strings; JavaScript arrays are   *)
(* sequences, with the 0-based index i of the code stored at position i+1. *)
(***************************************************************************)
EXTENDS Integers, Sequences, FiniteSets, Bags, TLC

(***************************************************************************)
(* Characters                                                              *)
(***************************************************************************)
UpperLetters == {"A", "B", "C", "D"}
LowerLetters == {"a", "b"}
Blank == "_"

\* /[A-Za-z]/.test(char)
isLetter(char) == char \in UpperLetters \cup LowerLetters

\* String.prototype.toUpperCase on one character
toUpperCase(char) ==
  CASE char = "a" -> "A"
    [] char = "b" -> "B"
    [] OTHER -> char

Min(S) == CHOOSE x \in S : \A y \in S : x <= y

\* The word_index of a request body: absent, the integer v, or the JSON number
\* v + 0.5, which no array holds an element for.
Undefined == <<>>
Some(v) == <<v>>
AndAHalf(v) == <<v, 5>>
isArrayIndex(wordIndex) == Len(wordIndex) = 1

(***************************************************************************)
(* Server: hint policy                                                     *)
(***************************************************************************)

\* answer.split(' '): one piece per single space, empty pieces included
RECURSIVE splitRec(_, _, _)
splitRec(s, cur, acc) ==
  IF s = <<>> THEN Append(acc, cur)
  ELSE IF Head(s) = " " THEN splitRec(Tail(s), <<>>, Append(acc, cur))
  ELSE splitRec(Tail(s), Append(cur, Head(s)), acc)

split(s) == splitRec(s, <<>>, <<>>)

\* The findIndex without `index > 0`: the first word may be the linking word.
findLinkIndexFromFirst(words, linkingWord) ==
  LET hits == {i \in 0..(Len(words) - 1) :
                 words[i + 1] = linkingWord /\ i < Len(words) - 1}
  IN IF hits = {} THEN -1 ELSE Min(hits)

\* words.findIndex((word, index) => word === linkingWord && index > 0 && index < words.length - 1)
findLinkIndex(words, linkingWord) ==
  LET hits == {i \in 0..(Len(words) - 1) :
                 words[i + 1] = linkingWord /\ i > 0 /\ i < Len(words) - 1}
  IN IF hits = {} THEN -1 ELSE Min(hits)

\* The loop of generateLetterArray from position i on.
RECURSIVE letterLoop(_, _, _, _, _)
letterLoop(word, revealType, i, firstLetterRevealed, letters) ==
  IF i > Len(word) THEN letters
  ELSE LET char == word[i] IN
    IF ~isLetter(char)
      THEN letterLoop(word, revealType, i + 1, firstLetterRevealed,
                      Append(letters, [char |-> char, isPunctuation |-> TRUE]))
    ELSE IF revealType = "full_word"
      THEN letterLoop(word, revealType, i + 1, firstLetterRevealed,
                      Append(letters, [char |-> toUpperCase(char), isPunctuation |-> FALSE]))
    ELSE IF revealType = "first_letter" /\ ~firstLetterRevealed
      THEN letterLoop(word, revealType, i + 1, TRUE,
                      Append(letters, [char |-> toUpperCase(char), isPunctuation |-> FALSE]))
    ELSE letterLoop(word, revealType, i + 1, firstLetterRevealed,
                    Append(letters, [char |-> Blank, isPunctuation |-> FALSE]))

\* generateLetterArray whose firstLetterRevealed is never set: first_letter
\* reveals every letter.
generateLetterArrayFlagNeverSet(word, revealType) ==
  letterLoop(word, IF revealType = "first_letter" THEN "full_word" ELSE revealType,
             1, FALSE, <<>>)

generateLetterArray(word, revealType) == letterLoop(word, revealType, 1, FALSE, <<>>)

\* letterArray.map(l => l.char)
toDisplayArray(letterArray) == [i \in 1..Len(letterArray) |-> letterArray[i].char]

HintTypes == {"first_letter", "full_word", "check_linking_available"}

\* hintPenalty without its second branch: the whole linking word at the price
\* of any other word.
hintPenaltyLinkingFullWordCheap(isLinking, hintType) ==
  IF isLinking /\ hintType = "first_letter" THEN 5
  ELSE 3

\* The penalty of a reveal of kind hintType.
hintPenalty(isLinking, hintType) ==
  IF isLinking /\ hintType = "first_letter" THEN 5
  ELSE IF isLinking /\ hintType = "full_word" THEN 5
  ELSE 3

\* The entry of word `index` in the structure response.
structureEntry(words, linkIndex, index) ==
  [word_index |-> index,
   length     |-> Len(words[index + 1]),
   is_linking |-> (index = linkIndex),
   letters    |-> toDisplayArray(generateLetterArray(words[index + 1], "empty")),
   state      |-> "empty",
   clickable  |-> (index # linkIndex)]

\* The entry of word `index` in the response to a hint of kind hintType on wordIndex.
hintEntry(words, linkIndex, wordIndex, hintType, index) ==
  IF index = wordIndex
    THEN [word_index |-> index,
          length     |-> Len(words[index + 1]),
          is_linking |-> (index = linkIndex),
          letters    |-> toDisplayArray(generateLetterArray(words[index + 1], hintType)),
          state      |-> hintType,
          clickable  |-> (hintType = "first_letter")]
    ELSE structureEntry(words, linkIndex, index)

\* generateWordSpecificHint that prices the availability check like a hint
generateWordSpecificHintChargedCheck(answer, linkingWord, wordIndex, hintType) ==
  LET words == split(answer)
      linkIndex == findLinkIndex(words, linkingWord)
  IN
  IF wordIndex = Undefined
    THEN [hint_type |-> "structure",
          word_structure |-> [i \in 1..Len(words) |-> structureEntry(words, linkIndex, i - 1)],
          penalty |-> 5]
  ELSE LET wi == wordIndex[1] IN
  IF wi < 0 \/ wi >= Len(words)
    THEN [error |-> "Invalid word_index"]
  ELSE IF hintType \notin HintTypes
    THEN [error |-> "Invalid hint_type"]
  ELSE IF hintType = "check_linking_available"
    THEN [hint_type |-> "linking_available_check", penalty |-> 3, linking_available |-> TRUE]
  ELSE IF ~isArrayIndex(wordIndex)
    THEN [hint_type |-> hintType,
          word_structure |-> [i \in 1..Len(words) |-> structureEntry(words, linkIndex, i - 1)],
          penalty |-> hintPenalty(FALSE, hintType),
          revealed_word |-> [word_index |-> wordIndex, is_linking |-> FALSE]]
  ELSE [hint_type |-> hintType,
        word_structure |->
          [i \in 1..Len(words) |-> hintEntry(words, linkIndex, wi, hintType, i - 1)],
        penalty |-> hintPenalty(wi = linkIndex, hintType),
        revealed_word |-> [word_index |-> wi, word |-> words[wi + 1],
                           is_linking |-> (wi = linkIndex)]]

\* generateWordSpecificHint(answer, linkingWord, wordIndex, hintType); wordIndex is
\* Undefined, Some(integer) or AndAHalf(integer).  The range check compares
\* numbers: v + 0.5 < 0 iff v < 0, and v + 0.5 >= n iff v >= n.  A number that is
\* no integer equals no index: words[wordIndex] is undefined, no entry is the
\* hinted one, and isLinking is false.
generateWordSpecificHint(answer, linkingWord, wordIndex, hintType) ==
  LET words == split(answer)
      linkIndex == findLinkIndex(words, linkingWord)
  IN
  IF wordIndex = Undefined
    THEN [hint_type |-> "structure",
          word_structure |-> [i \in 1..Len(words) |-> structureEntry(words, linkIndex, i - 1)],
          penalty |-> 5]
  ELSE LET wi == wordIndex[1] IN
  IF wi < 0 \/ wi >= Len(words)
    THEN [error |-> "Invalid word_index"]
  ELSE IF hintType \notin HintTypes
    THEN [error |-> "Invalid hint_type"]
  ELSE IF hintType = "check_linking_available"
    THEN [hint_type |-> "linking_available_check", penalty |-> 0, linking_available |-> TRUE]
  ELSE IF ~isArrayIndex(wordIndex)
    THEN [hint_type |-> hintType,
          word_structure |-> [i \in 1..Len(words) |-> structureEntry(words, linkIndex, i - 1)],
          penalty |-> hintPenalty(FALSE, hintType),
          revealed_word |-> [word_index |-> wordIndex, is_linking |-> FALSE]]
  ELSE [hint_type |-> hintType,
        word_structure |->
          [i \in 1..Len(words) |-> hintEntry(words, linkIndex, wi, hintType, i - 1)],
        penalty |-> hintPenalty(wi = linkIndex, hintType),
        revealed_word |-> [word_index |-> wi, word |-> words[wi + 1],
                           is_linking |-> (wi = linkIndex)]]

(***************************************************************************)
(* State                                                                   *)
(***************************************************************************)
VARIABLES
  puzzle_clues,       \* server: today's rows of puzzle_clues, by clue_number
  currentQuestion,    \* client globals (game client, lines 13-28)
  wordStates,
  structureRevealed,
  hintPenalties,
  totalHintsUsed,
  wrongAnswers,
  gameComplete,
  feedback,           \* client: the message showFeedback wrote last, hidden by loadQuestion
  finalScore,         \* client: the score showResults displays
  fetches,            \* bag of pending fetch() calls with the locals their continuation holds
  timers,             \* bag of pending setTimeout chains started by a correct answer
  call                \* the request and response of the last direct call of the endpoint

clientVars == <<currentQuestion, wordStates, structureRevealed, hintPenalties,
                totalHintsUsed, wrongAnswers, gameComplete>>
screenVars == <<feedback, finalScore>>
vars == <<puzzle_clues, currentQuestion, wordStates, structureRevealed, hintPenalties,
          totalHintsUsed, wrongAnswers, gameComplete, feedback, finalScore,
          fetches, timers, call>>

\* Bounds of the model
MaxFetches == 2    \* fetches pending at the same time
MaxHints == 6      \* hints counted or pending in one game
MaxSubmits == 2    \* answers validated or pending in one game

Questions == 0..MaxSubmits   \* every value currentQuestion can take

NoHintType == "undefined"
NoCall == [made |-> FALSE]

\* showFeedback(message, type): the text of the message and the points it names
message(text, points) == [text |-> text, points |-> points]
NoFeedback == message("", 0)

(***************************************************************************)
(* Server: routes                                                          *)
(***************************************************************************)

\* normalizeAnswer: upper-case, drop everything but letters and spaces,
\* collapse runs of spaces, trim
RECURSIVE keepLettersAndSpaces(_)
keepLettersAndSpaces(s) ==
  IF s = <<>> THEN <<>>
  ELSE LET c == toUpperCase(Head(s)) IN
       IF c \in UpperLetters \/ c = " "
         THEN <<c>> \o keepLettersAndSpaces(Tail(s))
         ELSE keepLettersAndSpaces(Tail(s))

RECURSIVE collapseSpaces(_)
collapseSpaces(s) ==
  IF Len(s) < 2 THEN s
  ELSE IF s[1] = " " /\ s[2] = " " THEN collapseSpaces(Tail(s))
  ELSE <<Head(s)>> \o collapseSpaces(Tail(s))

RECURSIVE trimStart(_)
trimStart(s) == IF s # <<>> /\ Head(s) = " " THEN trimStart(Tail(s)) ELSE s

RECURSIVE trimEnd(_)
trimEnd(s) ==
  IF s # <<>> /\ s[Len(s)] = " " THEN trimEnd(SubSeq(s, 1, Len(s) - 1)) ELSE s

trim(s) == trimEnd(trimStart(s))

\* normalizeAnswer without the trim
normalizeAnswerUntrimmed(answer) == collapseSpaces(keepLettersAndSpaces(answer))

normalizeAnswer(answer) == trim(collapseSpaces(keepLettersAndSpaces(answer)))

\* getHintRoute with a structure reveal that reports the stage each word of the
\* caller has reached
getHintRouteWithProgress(body) ==
  IF body.clue_number = 0
    THEN [body |-> [error |-> "Clue number is required"], status |-> 400]
  ELSE IF body.word_index # Undefined /\ body.hint_type = NoHintType
    THEN [body |-> [error |-> "hint_type is required when word_index is specified"], status |-> 400]
  ELSE IF body.clue_number \notin 1..Len(puzzle_clues)
    THEN [body |-> [error |-> "Clue not found"], status |-> 404]
  ELSE LET clue == puzzle_clues[body.clue_number]
           fresh == generateWordSpecificHint(clue.answer, clue.linking_word,
                                             body.word_index, body.hint_type)
           known == wordStates[currentQuestion]
           hintData ==
             IF body.word_index = Undefined
               THEN [fresh EXCEPT !.word_structure =
                       [i \in DOMAIN @ |->
                          IF i \in DOMAIN known
                            THEN [@[i] EXCEPT !.state = known[i].state]
                            ELSE @[i]]]
               ELSE fresh
       IN IF "error" \in DOMAIN hintData
            THEN [status |-> 400, body |-> hintData]
            ELSE [status |-> 200,
                  body |-> hintData @@
                           [clue_number |-> clue.clue_number,
                            word_index |-> body.word_index,
                            hint_type |-> IF body.hint_type = NoHintType
                                            THEN "structure" ELSE body.hint_type]]

\* router.post('/get-hint'): body = [clue_number, word_index, hint_type]
getHintRoute(body) ==
  IF body.clue_number = 0
    THEN [body |-> [error |-> "Clue number is required"], status |-> 400]
  ELSE IF body.word_index # Undefined /\ body.hint_type = NoHintType
    THEN [body |-> [error |-> "hint_type is required when word_index is specified"], status |-> 400]
  ELSE IF body.clue_number \notin 1..Len(puzzle_clues)
    THEN [body |-> [error |-> "Clue not found"], status |-> 404]
  ELSE LET clue == puzzle_clues[body.clue_number]
           hintData == generateWordSpecificHint(clue.answer, clue.linking_word,
                                                body.word_index, body.hint_type)
       IN IF "error" \in DOMAIN hintData
            THEN [status |-> 400, body |-> hintData]
            ELSE [status |-> 200,
                  body |-> hintData @@
                           [clue_number |-> clue.clue_number,
                            word_index |-> body.word_index,
                            hint_type |-> IF body.hint_type = NoHintType
                                            THEN "structure" ELSE body.hint_type]]

\* router.post('/get-hint-state'): body = [clue_number]
getHintStateRoute(body) ==
  IF body.clue_number = 0
    THEN [body |-> [error |-> "Clue number is required"], status |-> 400]
  ELSE IF body.clue_number \notin 1..Len(puzzle_clues)
    THEN [body |-> [error |-> "Clue not found"], status |-> 404]
  ELSE LET clue == puzzle_clues[body.clue_number]
           words == split(clue.answer)
           linkIndex == findLinkIndex(words, clue.linking_word)
       IN [status |-> 200,
           body |-> [clue_number |-> clue.clue_number,
                     word_structure |->
                       [i \in 1..Len(words) |->
                          [word_index |-> i - 1,
                           length     |-> Len(words[i]),
                           is_linking |-> (i - 1 = linkIndex),
                           letters    |-> [j \in 1..Len(words[i]) |-> Blank],
                           state      |-> "empty",
                           clickable  |-> (i - 1 # linkIndex)]],
                     structure_revealed |-> FALSE]]

\* router.post('/validate-clue'): body = [clue_number, answer]
validateClueRoute(body) ==
  IF body.clue_number = 0 \/ body.answer = <<>>
    THEN [body |-> [error |-> "Clue number and answer are required"], status |-> 400]
  ELSE IF body.clue_number \notin 1..Len(puzzle_clues)
    THEN [body |-> [error |-> "Clue not found"], status |-> 404]
  ELSE LET clue == puzzle_clues[body.clue_number]
           isCorrect == normalizeAnswer(body.answer) = normalizeAnswer(clue.answer)
           base == [correct |-> isCorrect, clue_number |-> clue.clue_number]
       IN [status |-> 200,
           body |-> IF isCorrect
                      THEN base @@ [linking_word |-> clue.linking_word,
                                    full_answer |-> clue.answer]
                      ELSE base]

\* router.get('/today'): of every stored clue the clue number and the clue text
todayRoute ==
  IF Len(puzzle_clues) = 0
    THEN [body |-> [error |-> "No clues found for today's puzzle"], status |-> 404]
    ELSE [status |-> 200,
          body |-> [clues |-> [i \in 1..Len(puzzle_clues) |->
                                 [k \in DOMAIN puzzle_clues[i] \cap {"clue_number", "clue"} |->
                                    puzzle_clues[i][k]]],
                    total_clues |-> Len(puzzle_clues)]]

\* The number of answers and of clues /validate-all insists on
RequiredClues == 5

\* router.post('/validate-all'): body = [answers]; `correct` is the truth value
\* of isCorrect, which is the empty string itself for an empty answer
validateAllRoute(body) ==
  IF Len(body.answers) # RequiredClues
    THEN [body |-> [error |-> "Exactly 5 answers are required"], status |-> 400]
  ELSE IF Len(puzzle_clues) # RequiredClues
    THEN [body |-> [error |-> "Invalid puzzle configuration"], status |-> 500]
  ELSE LET result(index) ==
             LET clue == puzzle_clues[index]
                 userAnswer == body.answers[index]
                 isCorrect == /\ userAnswer # <<>>
                              /\ normalizeAnswer(userAnswer) = normalizeAnswer(clue.answer)
                 base == [correct |-> isCorrect, clue_number |-> clue.clue_number]
             IN IF isCorrect
                  THEN base @@ [linking_word |-> clue.linking_word,
                                full_answer |-> clue.answer]
                  ELSE base
           results == [index \in 1..RequiredClues |-> result(index)]
       IN [status |-> 200,
           body |-> [all_correct |-> \A i \in 1..RequiredClues : results[i].correct,
                     correct_count |-> Cardinality({i \in 1..RequiredClues : results[i].correct}),
                     results |-> results]]

\* router.post('/submit-result') on a day with an active puzzle: body = [score,
\* completionTime, hintsUsed, wrongAnswers]; the response as far as `success`
submitResultRoute(body) ==
  IF body.score = 0 \/ body.completionTime = 0
    THEN [body |-> [error |-> "Score and completion time are required"], status |-> 400]
    ELSE [body |-> [success |-> TRUE], status |-> 200]

(***************************************************************************)
(* Client: reveal state tracker                                            *)
(***************************************************************************)

\* The puzzle played in the game specification: two clues of three words, the
\* second word the linking word; the first clue begins with punctuation.
GamePuzzle ==
  << [answer |-> <<"'", "A", " ", "B", " ", "C">>, clue_number |-> 1, linking_word |-> <<"B">>],
     [answer |-> <<"C", " ", "D", " ", "A">>, clue_number |-> 2, linking_word |-> <<"D">>] >>

\* puzzleClues.length
puzzleCluesLength == Len(puzzle_clues)

\* getCurrentWordStates(): an absent and an empty entry both hold no word
getCurrentWordStates == wordStates[currentQuestion]

\* isStructureRevealed()
isStructureRevealed == structureRevealed[currentQuestion]

\* The game screen takes input until showResults has run.
gameScreenShown == ~gameComplete /\ currentQuestion < puzzleCluesLength

\* One entry of initializeWordStates' wordStructure.map(...)
initialWordState(wordData) ==
  [word_index |-> wordData.word_index,
   length     |-> wordData.length,
   is_linking |-> wordData.is_linking,
   state      |-> "empty",
   letters    |-> [j \in 1..wordData.length |-> Blank],
   clickable  |-> ~wordData.is_linking]

\* array[0] = value, on an array that may be empty
setFirst(letters, value) ==
  IF letters = <<>> THEN <<value>> ELSE [letters EXCEPT ![1] = value]

\* word[0], undefined for the empty string
firstChar(word) == IF word = <<>> THEN "undefined" ELSE word[1]

\* updateWordState whose full_word branch writes the letters of an empty word
\* only and keeps the letters a first_letter hint left.
updateWordStateKeepsLetters(cws, wordIndex, hintData) ==
  LET wordState == cws[wordIndex + 1]
      revealedWord == hintData.revealed_word
  IN IF hintData.hint_type = "first_letter"
       THEN [cws EXCEPT ![wordIndex + 1] =
               [wordState EXCEPT !.state = "first_letter",
                                 !.letters = setFirst(wordState.letters, firstChar(revealedWord.word)),
                                 !.clickable = TRUE]]
     ELSE IF hintData.hint_type = "full_word"
       THEN [cws EXCEPT ![wordIndex + 1] =
               [wordState EXCEPT !.state = "full_word",
                                 !.letters = IF wordState.state = "empty"
                                               THEN revealedWord.word ELSE wordState.letters,
                                 !.clickable = FALSE]]
     ELSE cws

\* updateWordState(wordIndex, hintData) on the word states cws, wordIndex in range
updateWordState(cws, wordIndex, hintData) ==
  LET wordState == cws[wordIndex + 1]
      revealedWord == hintData.revealed_word
  IN IF hintData.hint_type = "first_letter"
       THEN [cws EXCEPT ![wordIndex + 1] =
               [wordState EXCEPT !.state = "first_letter",
                                 !.letters = setFirst(wordState.letters, firstChar(revealedWord.word)),
                                 !.clickable = TRUE]]
     ELSE IF hintData.hint_type = "full_word"
       THEN [cws EXCEPT ![wordIndex + 1] =
               [wordState EXCEPT !.state = "full_word",
                                 !.letters = revealedWord.word,
                                 !.clickable = FALSE]]
     ELSE cws

\* checkLinkingWordAvailability that takes a word for revealed once any hint on it
\* was applied.
checkLinkingWordAvailabilityAnyHint(cws) ==
  LET linking == {i \in 1..Len(cws) : cws[i].is_linking} IN
  IF linking = {} THEN cws
  ELSE LET linkingWordIndex == Min(linking)
           allNonLinkingRevealed ==
             \A i \in 1..Len(cws) : ~cws[i].is_linking => cws[i].state # "empty"
       IN [cws EXCEPT ![linkingWordIndex].clickable = allNonLinkingRevealed]

\* checkLinkingWordAvailability that recomputes the flag of every word from the
\* stages, not the flag of the linking word alone.
checkLinkingWordAvailabilityEveryWord(cws) ==
  LET allNonLinkingRevealed ==
        \A i \in 1..Len(cws) : ~cws[i].is_linking => cws[i].state = "full_word"
  IN [i \in 1..Len(cws) |->
        [cws[i] EXCEPT !.clickable = IF cws[i].is_linking
                                       THEN allNonLinkingRevealed
                                       ELSE cws[i].state # "full_word"]]

\* checkLinkingWordAvailability() on the word states cws
checkLinkingWordAvailability(cws) ==
  LET linking == {i \in 1..Len(cws) : cws[i].is_linking} IN
  IF linking = {} THEN cws
  ELSE LET linkingWordIndex == Min(linking)
           allNonLinkingRevealed ==
             \A i \in 1..Len(cws) : ~cws[i].is_linking => cws[i].state = "full_word"
       IN [cws EXCEPT ![linkingWordIndex].clickable = allNonLinkingRevealed]

\* The hint type handleWordClick asks for, "none" when it sends nothing
clickHintType(wordState) ==
  IF ~wordState.clickable THEN "none"
  ELSE IF wordState.state = "empty" THEN "first_letter"
  ELSE IF wordState.state = "first_letter" THEN "full_word"
  ELSE "none"

\* notClickableMessage with one message for every word
notClickableMessageForAnyWord(wordState) ==
  message("This word is not available for hints", 0)

\* The message handleWordClick shows for a word that is not clickable
notClickableMessage(wordState) ==
  IF wordState.is_linking
    THEN message("Complete other words first to unlock the linking word", 0)
    ELSE message("This word is not available for hints", 0)

\* The message handleWordClick shows once the hint is counted
hintMessage(isLinking, hintType, penalty) ==
  message(IF isLinking
            THEN (IF hintType = "first_letter" THEN "Linking word first letter revealed"
                                               ELSE "Linking word fully revealed")
            ELSE (IF hintType = "first_letter" THEN "first letter revealed"
                                               ELSE "fully revealed"),
          penalty)

\* What the forEach of getQuestionHintSummary adds for the words from position k
RECURSIVE wordsHintSummary(_, _)
wordsHintSummary(currentWordStates, k) ==
  IF k > Len(currentWordStates) THEN [hintsUsed |-> 0, totalPenalty |-> 0]
  ELSE LET word == currentWordStates[k]
           rest == wordsHintSummary(currentWordStates, k + 1)
       IN IF word.state = "first_letter"
            THEN [hintsUsed |-> rest.hintsUsed + 1,
                  totalPenalty |-> rest.totalPenalty + (IF word.is_linking THEN 5 ELSE 3)]
          ELSE IF word.state = "full_word"
            THEN [hintsUsed |-> rest.hintsUsed + 2,
                  totalPenalty |-> rest.totalPenalty + (IF word.is_linking THEN 10 ELSE 6)]
          ELSE rest

\* getQuestionHintSummary() with currentQuestion set to q, as showResults calls it
getQuestionHintSummary(q) ==
  LET words == wordsHintSummary(wordStates[q], 1) IN
  IF structureRevealed[q]
    THEN [hintsUsed |-> words.hintsUsed + 1, totalPenalty |-> words.totalPenalty + 5]
    ELSE words

\* showResults without Math.max: 100 - (wrongAnswers * 2 + hintPenalties)
computeFinalScoreUnclamped(wrong, penalties) == 100 - (wrong * 2 + penalties)

\* showResults: Math.max(0, 100 - (wrongAnswers * 2 + hintPenalties))
computeFinalScore(wrong, penalties) ==
  LET totalPenalties == wrong * 2 + penalties
  IN IF 100 - totalPenalties > 0 THEN 100 - totalPenalties ELSE 0

\* The body submitResults(score, completionTime) posts to /submit-result
submitResults(score, completionTime) ==
  [score |-> score, completionTime |-> completionTime,
   hintsUsed |-> totalHintsUsed, wrongAnswers |-> wrongAnswers]

\* revealCompleteAnswer's timer body for one word
completeWord(wordState, word) ==
  [wordState EXCEPT
     !.letters = [j \in 1..Len(wordState.letters) |->
                    IF j <= Len(word) /\ wordState.letters[j] = Blank
                      THEN word[j] ELSE wordState.letters[j]],
     !.state = "complete",
     !.clickable = FALSE]

(***************************************************************************)
(* Client: event handlers.  A handler runs to its first await; what follows *)
(* the await runs when the fetch settles.                                  *)
(***************************************************************************)

\* What the player may type into the answer box on the current question.
TypedAnswers ==
  IF currentQuestion < puzzleCluesLength
    THEN {puzzle_clues[currentQuestion + 1].answer, <<"b">>}
    ELSE {<<"b">>}

upperCaseAll(s) == [i \in 1..Len(s) |-> toUpperCase(s[i])]

canSend == BagCardinality(fetches) < MaxFetches

\* The number of pending fetches whose continuation is cont
pending(cont) ==
  BagCardinality([f \in {x \in BagToSet(fetches) : x.cont = cont} |-> fetches[f]])

\* The bounds on one game: hints counted so far or on their way, answers judged
\* so far or on their way.
canSendHint ==
  canSend /\ totalHintsUsed + pending("giveHint") + pending("handleWordClick") < MaxHints
canSendAnswer ==
  canSend /\ wrongAnswers + currentQuestion + BagCardinality(timers) + pending("checkAnswer")
               < MaxSubmits

\* giveHint() up to `await getStructureHint()`: the hint button is enabled while
\* updateHintButton found no structure for the current question.
GiveHint ==
  /\ gameScreenShown
  /\ ~isStructureRevealed
  /\ canSendHint
  /\ fetches' = fetches (+) SetToBag({[cont |-> "giveHint",
                  body |-> [clue_number |-> currentQuestion + 1,
                            word_index |-> Undefined, hint_type |-> NoHintType]]})
  /\ UNCHANGED <<puzzle_clues, clientVars, screenVars, timers, call>>

\* handleWordClick(wordIndex) up to `await getWordHint(...)`: the words are on
\* screen once the structure of the current question is rendered.
HandleWordClick(wordIndex) ==
  /\ gameScreenShown
  /\ isStructureRevealed
  /\ wordIndex < Len(getCurrentWordStates)
  /\ LET wordState == getCurrentWordStates[wordIndex + 1]
         hintType == clickHintType(wordState)
     IN
     IF ~wordState.clickable
       THEN /\ feedback' = notClickableMessage(wordState)
            /\ UNCHANGED <<puzzle_clues, clientVars, finalScore, fetches, timers, call>>
     ELSE IF hintType = "none"
       THEN UNCHANGED vars
       ELSE /\ canSendHint
            /\ fetches' = fetches (+) SetToBag({[cont |-> "handleWordClick",
                            body |-> [clue_number |-> currentQuestion + 1,
                                      word_index |-> Some(wordIndex),
                                      hint_type |-> hintType],
                            wordIndex |-> wordIndex, hintType |-> hintType,
                            isLinking |-> wordState.is_linking]})
            /\ UNCHANGED <<puzzle_clues, clientVars, screenVars, timers, call>>

\* checkAnswer() up to `await fetch(.../validate-clue)`
CheckAnswer(typed) ==
  /\ gameScreenShown
  /\ LET userAnswer == trim(upperCaseAll(typed)) IN
     /\ userAnswer # <<>>
     /\ canSendAnswer
     /\ fetches' = fetches (+) SetToBag({[cont |-> "checkAnswer",
                     body |-> [clue_number |-> currentQuestion + 1,
                               answer |-> userAnswer]]})
  /\ UNCHANGED <<puzzle_clues, clientVars, screenVars, timers, call>>

\* A word-reveal chain that holds the word objects of question q loses them when
\* initializeWordStates replaces them: its remaining timers change nothing visible.
orphan(chain, q) ==
  IF chain.pc = "word" /\ chain.bound = q
    THEN [chain EXCEPT !.pc = "advance", !.k = 0, !.bound = -1]
    ELSE chain

\* initializeWordStates(wordStructure)
initializeWordStates(wordStructure) ==
  /\ wordStates' = [wordStates EXCEPT ![currentQuestion] =
                      [i \in 1..Len(wordStructure) |-> initialWordState(wordStructure[i])]]
  /\ structureRevealed' = [structureRevealed EXCEPT ![currentQuestion] = TRUE]
  /\ timers' = LET q == currentQuestion
                   o(chain) == orphan(chain, q)
               IN BagOfAll(o, timers)

\* applyStructureHint that adds the penalty of the structure and leaves the
\* number of hints as it is
applyStructureHintUncounted(hintData) ==
  IF "error" \in DOMAIN hintData
    THEN /\ feedback' = message("Hint error", 0)
         /\ UNCHANGED <<clientVars, finalScore, timers>>
    ELSE /\ hintPenalties' = hintPenalties + hintData.penalty
         /\ feedback' = message("Word structure revealed", hintData.penalty)
         /\ initializeWordStates(hintData.word_structure)
         /\ UNCHANGED <<currentQuestion, totalHintsUsed, wrongAnswers, gameComplete,
                        finalScore>>

\* The part of giveHint after the await, given the response body
applyStructureHint(hintData) ==
  IF "error" \in DOMAIN hintData
    THEN /\ feedback' = message("Hint error", 0)
         /\ UNCHANGED <<clientVars, finalScore, timers>>
    ELSE /\ hintPenalties' = hintPenalties + hintData.penalty
         /\ totalHintsUsed' = totalHintsUsed + 1
         /\ feedback' = message("Word structure revealed", hintData.penalty)
         /\ initializeWordStates(hintData.word_structure)
         /\ UNCHANGED <<currentQuestion, wrongAnswers, gameComplete, finalScore>>

GiveHintResponse(f) ==
  /\ f.cont = "giveHint"
  /\ fetches' = fetches (-) SetToBag({f})
  /\ applyStructureHint(getHintRoute(f.body).body)
  /\ UNCHANGED <<puzzle_clues, call>>

\* applyWordHint that counts the hint before it looks at the response
applyWordHintCountsFirst(wordIndex, isLinking, hintType, hintData) ==
  IF "error" \in DOMAIN hintData
    THEN /\ totalHintsUsed' = totalHintsUsed + 1
         /\ feedback' = message("Hint error", 0)
         /\ UNCHANGED <<currentQuestion, wordStates, structureRevealed, hintPenalties,
                        wrongAnswers, gameComplete, finalScore>>
    ELSE /\ hintPenalties' = hintPenalties + hintData.penalty
         /\ totalHintsUsed' = totalHintsUsed + 1
         /\ feedback' = hintMessage(isLinking, hintType, hintData.penalty)
         /\ UNCHANGED finalScore
         /\ IF \/ ~isArrayIndex(wordIndex)
               \/ wordIndex[1] < 0 \/ wordIndex[1] >= Len(getCurrentWordStates)
              THEN UNCHANGED wordStates
              ELSE wordStates' = [wordStates EXCEPT ![currentQuestion] =
                     checkLinkingWordAvailability(
                       updateWordState(getCurrentWordStates, wordIndex[1], hintData))]
         /\ UNCHANGED <<currentQuestion, structureRevealed, wrongAnswers, gameComplete>>

\* The part of handleWordClick after the await, given the response body: the
\* penalty is counted, then updateWordState throws when the current question
\* holds no word at wordIndex (Some(integer) or AndAHalf(integer)).  isLinking
\* and hintType are what the handler held before the await.
applyWordHint(wordIndex, isLinking, hintType, hintData) ==
  IF "error" \in DOMAIN hintData
    THEN /\ feedback' = message("Hint error", 0)
         /\ UNCHANGED <<clientVars, finalScore>>
    ELSE /\ hintPenalties' = hintPenalties + hintData.penalty
         /\ totalHintsUsed' = totalHintsUsed + 1
         /\ feedback' = hintMessage(isLinking, hintType, hintData.penalty)
         /\ UNCHANGED finalScore
         /\ IF \/ ~isArrayIndex(wordIndex)
               \/ wordIndex[1] < 0 \/ wordIndex[1] >= Len(getCurrentWordStates)
              THEN UNCHANGED wordStates
              ELSE wordStates' = [wordStates EXCEPT ![currentQuestion] =
                     checkLinkingWordAvailability(
                       updateWordState(getCurrentWordStates, wordIndex[1], hintData))]
         /\ UNCHANGED <<currentQuestion, structureRevealed, wrongAnswers, gameComplete>>

HandleWordClickResponse(f) ==
  /\ f.cont = "handleWordClick"
  /\ fetches' = fetches (-) SetToBag({f})
  /\ applyWordHint(Some(f.wordIndex), f.isLinking, f.hintType, getHintRoute(f.body).body)
  /\ UNCHANGED <<puzzle_clues, timers, call>>

\* checkAnswer() after the await, a wrong answer not being counted
CheckAnswerResponseUncounted(f) ==
  /\ f.cont = "checkAnswer"
  /\ fetches' = fetches (-) SetToBag({f})
  /\ LET result == validateClueRoute(f.body).body IN
     IF "error" \in DOMAIN result
       THEN /\ feedback' = message("Error", 0)
            /\ UNCHANGED <<clientVars, timers>>
     ELSE IF result.correct
       THEN /\ feedback' = message("Correct!", 0)
            /\ timers' = timers (+) SetToBag({[clue |-> result.clue_number,
                           pc |-> IF isStructureRevealed THEN "reveal" ELSE "advance",
                           k |-> 0, bound |-> -1]})
            /\ UNCHANGED clientVars
       ELSE /\ feedback' = message("Try again!", 0)
            /\ UNCHANGED <<clientVars, timers>>
  /\ UNCHANGED <<puzzle_clues, finalScore, call>>

\* checkAnswer() after the await
CheckAnswerResponse(f) ==
  /\ f.cont = "checkAnswer"
  /\ fetches' = fetches (-) SetToBag({f})
  /\ LET result == validateClueRoute(f.body).body IN
     IF "error" \in DOMAIN result
       THEN /\ feedback' = message("Error", 0)
            /\ UNCHANGED <<clientVars, timers>>
     ELSE IF result.correct
       THEN /\ feedback' = message("Correct!", 0)
            /\ timers' = timers (+) SetToBag({[clue |-> result.clue_number,
                           pc |-> IF isStructureRevealed THEN "reveal" ELSE "advance",
                           k |-> 0, bound |-> -1]})
            /\ UNCHANGED clientVars
       ELSE /\ wrongAnswers' = wrongAnswers + 1
            /\ feedback' = message("Try again!", 0)
            /\ UNCHANGED <<currentQuestion, wordStates, structureRevealed, hintPenalties,
                           totalHintsUsed, gameComplete, timers>>
  /\ UNCHANGED <<puzzle_clues, finalScore, call>>

\* A fetch that rejects (transport failure): the caller's catch shows a message
\* and the handler returns without touching the game state.
FetchFails(f) ==
  /\ fetches' = fetches (-) SetToBag({f})
  /\ feedback' = IF f.cont = "checkAnswer"
                   THEN message("Connection error. Please try again.", 0)
                   ELSE message("Failed to get hint. Try again.", 0)
  /\ UNCHANGED <<puzzle_clues, clientVars, finalScore, timers, call>>

\* What a route answers when the query of the stored clue fails
DatabaseError == [body |-> [error |-> "Database error"], status |-> 500]

\* A fetch the server answers with DatabaseError: the caller shows the error
\* and returns without touching the game state.
FetchAnswersError(f) ==
  /\ fetches' = fetches (-) SetToBag({f})
  /\ CASE f.cont = "giveHint" -> applyStructureHint(DatabaseError.body)
       [] f.cont = "handleWordClick" ->
            /\ applyWordHint(Some(f.wordIndex), f.isLinking, f.hintType, DatabaseError.body)
            /\ UNCHANGED timers
       [] f.cont = "checkAnswer" ->
            /\ feedback' = message("Error", 0)
            /\ UNCHANGED <<clientVars, finalScore, timers>>
  /\ UNCHANGED <<puzzle_clues, call>>

(***************************************************************************)
(* Client: timers of a correct answer.  One chain per correct response:    *)
(* revealCompleteAnswer at 500 ms, its words at 500 + 300 k ms, the advance *)
(* to the next question at 2500 ms (answers of at most seven words).       *)
(***************************************************************************)

\* The least word index >= k for which revealCompleteAnswer sets a timer, or -1.
nextWordTimer(words, cws, k) ==
  LET set == {i \in k..(Len(words) - 1) : words[i + 1] # <<>> /\ i < Len(cws)}
  IN IF set = {} THEN -1 ELSE Min(set)

replaceChain(chain, next) == (timers (-) SetToBag({chain})) (+) SetToBag({next})

\* setTimeout(() => revealCompleteAnswer(result.full_answer), 500)
RevealCompleteAnswer(chain) ==
  /\ chain.pc = "reveal"
  /\ LET words == split(puzzle_clues[chain.clue].answer)
         k == nextWordTimer(words, getCurrentWordStates, 0)
     IN timers' = replaceChain(chain,
          IF k = -1 THEN [chain EXCEPT !.pc = "advance"]
                    ELSE [chain EXCEPT !.pc = "word", !.k = k, !.bound = currentQuestion])
  /\ UNCHANGED <<puzzle_clues, clientVars, screenVars, fetches, call>>

\* The timer revealCompleteAnswer sets for word chain.k
RevealWord(chain) ==
  /\ chain.pc = "word"
  /\ LET words == split(puzzle_clues[chain.clue].answer)
         k == nextWordTimer(words, wordStates[chain.bound], chain.k + 1)
     IN /\ wordStates' = [wordStates EXCEPT ![chain.bound][chain.k + 1] =
                            completeWord(@, words[chain.k + 1])]
        /\ timers' = replaceChain(chain,
             IF k = -1 THEN [chain EXCEPT !.pc = "advance", !.k = 0, !.bound = -1]
                       ELSE [chain EXCEPT !.k = k])
  /\ UNCHANGED <<puzzle_clues, currentQuestion, structureRevealed, hintPenalties,
                 totalHintsUsed, wrongAnswers, gameComplete, screenVars, fetches, call>>

\* setTimeout(() => { currentQuestion++; loadQuestion(); }, 2500); loadQuestion
\* calls showResults past the last clue and hides the feedback otherwise.
AdvanceQuestion(chain) ==
  /\ chain.pc = "advance"
  /\ timers' = timers (-) SetToBag({chain})
  /\ currentQuestion' = currentQuestion + 1
  /\ IF currentQuestion + 1 >= puzzleCluesLength
       THEN /\ gameComplete' = TRUE
            /\ finalScore' = Some(computeFinalScore(wrongAnswers, hintPenalties))
            /\ UNCHANGED feedback
       ELSE /\ feedback' = NoFeedback
            /\ UNCHANGED <<gameComplete, finalScore>>
  /\ UNCHANGED <<puzzle_clues, wordStates, structureRevealed, hintPenalties,
                 totalHintsUsed, wrongAnswers, fetches, call>>

(***************************************************************************)
(* The game                                                                *)
(***************************************************************************)

\* startGame() on a loaded puzzle
startGame ==
  /\ currentQuestion = 0
  /\ wordStates = [q \in Questions |-> <<>>]
  /\ structureRevealed = [q \in Questions |-> FALSE]
  /\ hintPenalties = 0
  /\ totalHintsUsed = 0
  /\ wrongAnswers = 0
  /\ gameComplete = FALSE
  /\ feedback = NoFeedback
  /\ finalScore = Undefined

Init ==
  /\ puzzle_clues = GamePuzzle
  /\ startGame
  /\ fetches = EmptyBag
  /\ timers = EmptyBag
  /\ call = NoCall

WordIndexes == 0..2

Click == \E wordIndex \in WordIndexes : HandleWordClick(wordIndex)
Submit == \E typed \in TypedAnswers : CheckAnswer(typed)
StructureArrives == \E f \in BagToSet(fetches) : GiveHintResponse(f)
WordHintArrives == \E f \in BagToSet(fetches) : HandleWordClickResponse(f)
ValidationArrives == \E f \in BagToSet(fetches) : CheckAnswerResponse(f)
FetchError == \E f \in BagToSet(fetches) : FetchFails(f)
ServerError == \E f \in BagToSet(fetches) : FetchAnswersError(f)
RevealTimer == \E chain \in BagToSet(timers) : RevealCompleteAnswer(chain)
WordTimer == \E chain \in BagToSet(timers) : RevealWord(chain)
AdvanceTimer == \E chain \in BagToSet(timers) : AdvanceQuestion(chain)

Next ==
  \/ GiveHint
  \/ Click
  \/ Submit
  \/ StructureArrives
  \/ WordHintArrives
  \/ ValidationArrives
  \/ FetchError
  \/ ServerError
  \/ RevealTimer
  \/ WordTimer
  \/ AdvanceTimer

Spec == Init /\ [][Next]_vars

(***************************************************************************)
(* The hint engine driven directly: one stored clue drawn from a bounded   *)
(* set of answers, each request sent with any word index and hint type and *)
(* its response handed to the client code that follows the await.          *)
(***************************************************************************)
MaxPieces == 4   \* pieces of a stored answer between single spaces

\* The pieces of a stored answer: a word, a word that begins with punctuation and
\* holds a lower-case letter, a piece without a letter, and the empty piece that
\* a leading, trailing or doubled space leaves.  An answer is stored as it was
\* sent (save-generated-puzzle) or upper-cased (daily-puzzles), never trimmed.
Pieces == {<<"A">>, <<"'", "b", "A">>, <<"'">>, <<>>}

RECURSIVE AnswersOf(_)
AnswersOf(n) ==
  IF n = 1 THEN Pieces
  ELSE {a \o <<" ">> \o p : a \in AnswersOf(n - 1), p \in Pieces}

Answers ==
  {a \in UNION {AnswersOf(n) : n \in 1..MaxPieces} : \E i \in 1..Len(a) : isLetter(a[i])}
LinkingWords == {<<"A">>}

\* The word indexes a request may carry: every index of the stored answer, one
\* index off either end, and the numbers half way between them
DirectWordIndexes ==
  {Some(i) : i \in -1..Len(split(puzzle_clues[1].answer))}
    \cup {AndAHalf(i) : i \in -1..(Len(split(puzzle_clues[1].answer)) - 1)}
\* The hint types a request may carry: the three the policy knows, one it does
\* not know, and none
DirectHintTypes == HintTypes \cup {"structure", NoHintType}

PolicyInit ==
  /\ puzzle_clues \in {<<[clue_number |-> 1, answer |-> a, linking_word |-> l]>> :
                         a \in Answers, l \in LinkingWords}
  /\ startGame
  /\ fetches = EmptyBag
  /\ timers = EmptyBag
  /\ call = NoCall

\* wordState.is_linking of the word the caller asks about, false when the caller
\* holds no such word
callerIsLinking(wordIndex) ==
  /\ isArrayIndex(wordIndex)
  /\ wordIndex[1] >= 0 /\ wordIndex[1] < Len(getCurrentWordStates)
  /\ getCurrentWordStates[wordIndex[1] + 1].is_linking

\* POST /get-hint with this body, then the caller's code after the await.  A run
\* is at most the structure request followed by one word hint request.
DirectGetHint(body) ==
  /\ \/ ~call.made
     \/ /\ call.made
        /\ call.route = "get-hint"
        /\ call.body.word_index = Undefined
        /\ body.word_index # Undefined
  /\ LET response == getHintRoute(body) IN
     /\ call' = [made |-> TRUE, route |-> "get-hint", body |-> body, response |-> response]
     /\ IF body.word_index = Undefined
          THEN applyStructureHint(response.body)
          ELSE applyWordHint(body.word_index, callerIsLinking(body.word_index),
                             body.hint_type, response.body) /\ UNCHANGED timers
  /\ UNCHANGED <<puzzle_clues, fetches>>

\* The structure request of giveHint
DirectStructure ==
  DirectGetHint([word_index |-> Undefined, hint_type |-> NoHintType, clue_number |-> 1])

\* A word hint request with any word index and hint type
DirectWordHint ==
  \E wi \in DirectWordIndexes, ht \in DirectHintTypes :
    DirectGetHint([word_index |-> wi, hint_type |-> ht, clue_number |-> 1])

\* POST /get-hint-state, which the server answers from the stored clue alone
DirectGetHintState ==
  /\ ~call.made
  /\ LET body == [clue_number |-> 1] IN
     call' = [made |-> TRUE, route |-> "get-hint-state", body |-> body,
              response |-> getHintStateRoute(body)]
  /\ UNCHANGED <<puzzle_clues, clientVars, screenVars, fetches, timers>>

PolicyNext ==
  \/ DirectStructure
  \/ DirectWordHint
  \/ DirectGetHintState

PolicySpec == PolicyInit /\ [][PolicyNext]_vars

(***************************************************************************)
(* Repeated structure reveals (RevealSpec): one stored clue and up to      *)
(* MaxCalls requests to get-hint in any order, structure reveals and word  *)
(* hints alike; the call record also keeps the number of requests made and *)
(* the response of the first structure reveal.                             *)
(***************************************************************************)

MaxCalls == 3          \* requests to get-hint in one run
MaxRevealPieces == 3   \* pieces between spaces in the stored answer

RevealInit ==
  /\ puzzle_clues \in {<<[clue_number |-> 1, answer |-> a, linking_word |-> l]>> :
                         a \in {b \in Answers : Len(split(b)) <= MaxRevealPieces},
                         l \in LinkingWords}
  /\ startGame
  /\ fetches = EmptyBag
  /\ timers = EmptyBag
  /\ call = [made |-> FALSE, count |-> 0, structure |-> Undefined]

\* POST /get-hint with this body, then the caller's code after the await
RepeatedGetHint(body) ==
  /\ call.count < MaxCalls
  /\ LET response == getHintRoute(body) IN
     /\ call' = [made |-> TRUE, route |-> "get-hint", body |-> body, response |-> response,
                 count |-> call.count + 1,
                 structure |-> IF body.word_index = Undefined /\ call.structure = Undefined
                                 THEN Some(response) ELSE call.structure]
     /\ IF body.word_index = Undefined
          THEN applyStructureHint(response.body)
          ELSE applyWordHint(body.word_index, callerIsLinking(body.word_index),
                             body.hint_type, response.body) /\ UNCHANGED timers
  /\ UNCHANGED <<puzzle_clues, fetches>>

\* The structure request of giveHint, at any time
RepeatedStructure ==
  RepeatedGetHint([word_index |-> Undefined, hint_type |-> NoHintType, clue_number |-> 1])

\* A word hint request with any word index and hint type, at any time
RepeatedWordHint ==
  \E wi \in DirectWordIndexes, ht \in DirectHintTypes :
    RepeatedGetHint([word_index |-> wi, hint_type |-> ht, clue_number |-> 1])

RevealNext ==
  \/ RepeatedStructure
  \/ RepeatedWordHint

RevealSpec == RevealInit /\ [][RevealNext]_vars

(***************************************************************************)
(* Answers on the wire (AnswerSpec): a stored puzzle and one request to    *)
(* /today, /validate-clue or /validate-all, recorded in the call record.   *)
(***************************************************************************)

MaxTyped == 4   \* characters of a submitted answer

\* The answers stored with the clues of a puzzle of RequiredClues clues
StoredAnswers == {<<"A", " ", "B">>, <<"A", "'", "b">>}

\* The stored puzzles: every puzzle of RequiredClues clues over StoredAnswers,
\* and the puzzle of the game, which has fewer clues
StoredPuzzles ==
  {[i \in 1..RequiredClues |->
      [answer |-> f[i], clue_number |-> i, linking_word |-> <<"B">>]] :
     f \in [1..RequiredClues -> StoredAnswers]}
    \cup {GamePuzzle}

\* What a player may submit for one clue: any text of up to MaxTyped characters
RECURSIVE TextsOf(_)
TextsOf(n) ==
  IF n = 0 THEN {<<>>}
  ELSE {Append(t, c) : t \in TextsOf(n - 1), c \in {"A", "b", "'", " "}}

Submissions == UNION {TextsOf(n) : n \in 0..MaxTyped}

\* The answers /validate-all is tried with for one clue
BulkSubmissions == {<<>>, <<"a", "b">>, <<" ", "a", " ", " ", "B", " ">>, <<"A", "'", "B">>}

AnswerInit ==
  /\ puzzle_clues \in StoredPuzzles
  /\ startGame
  /\ fetches = EmptyBag
  /\ timers = EmptyBag
  /\ call = NoCall

\* One request to a route that is answered from the stored puzzle alone
Request(route, body, response) ==
  /\ ~call.made
  /\ call' = [made |-> TRUE, route |-> route, body |-> body, response |-> response]
  /\ UNCHANGED <<puzzle_clues, clientVars, screenVars, fetches, timers>>

GetToday == Request("today", [clue_number |-> 0], todayRoute)

ValidateClue ==
  \E n \in 0..(RequiredClues + 1), typed \in Submissions :
    LET body == [clue_number |-> n, answer |-> typed] IN
    Request("validate-clue", body, validateClueRoute(body))

ValidateAll ==
  \E count \in {RequiredClues - 1, RequiredClues} :
    \E answers \in [1..count -> BulkSubmissions] :
      LET body == [answers |-> answers] IN
      Request("validate-all", body, validateAllRoute(body))

AnswerNext ==
  \/ GetToday
  \/ ValidateClue
  \/ ValidateAll

AnswerSpec == AnswerInit /\ [][AnswerNext]_vars

(***************************************************************************)
(* One question played to the results (HintSpec): one stored clue of three *)
(* words separated by single spaces, the hint button and the words clicked *)
(* one after the other and then the answer submitted, every response       *)
(* arriving before the next click.                                         *)
(***************************************************************************)

HintPieces == 3   \* words of the stored answer

HintInit ==
  /\ puzzle_clues \in {<<[answer |-> a, clue_number |-> 1, linking_word |-> l]>> :
                         a \in {b \in Answers : /\ Len(split(b)) = HintPieces
                                                  /\ \A k \in 1..HintPieces : split(b)[k] # <<>>},
                         l \in LinkingWords}
  /\ startGame
  /\ fetches = EmptyBag
  /\ timers = EmptyBag
  /\ call = NoCall

\* giveHint(), the response arriving at once
GiveHintAnswered ==
  /\ gameScreenShown
  /\ ~isStructureRevealed
  /\ LET body == [word_index |-> Undefined, hint_type |-> NoHintType,
                  clue_number |-> currentQuestion + 1]
         response == getHintRoute(body)
     IN /\ call' = [made |-> TRUE, route |-> "get-hint", body |-> body, response |-> response]
        /\ applyStructureHint(response.body)
  /\ UNCHANGED <<puzzle_clues, fetches>>

\* handleWordClick(wordIndex) on a word that can be hinted, the response
\* arriving at once
HandleWordClickAnswered(wordIndex) ==
  /\ gameScreenShown
  /\ isStructureRevealed
  /\ wordIndex < Len(getCurrentWordStates)
  /\ LET wordState == getCurrentWordStates[wordIndex + 1]
         hintType == clickHintType(wordState)
         body == [word_index |-> Some(wordIndex), hint_type |-> hintType,
                  clue_number |-> currentQuestion + 1]
         response == getHintRoute(body)
     IN /\ wordState.clickable
        /\ hintType # "none"
        /\ call' = [made |-> TRUE, route |-> "get-hint", body |-> body, response |-> response]
        /\ applyWordHint(Some(wordIndex), wordState.is_linking, hintType, response.body)
  /\ UNCHANGED <<puzzle_clues, fetches, timers>>

\* checkAnswer() with the answer to the current clue, judged at once; the game
\* screen stays up until the advance timer runs, so that the answer can be
\* submitted again meanwhile, up to MaxSubmits times
CheckAnswerAnswered ==
  /\ gameScreenShown
  /\ BagCardinality(timers) < MaxSubmits
  /\ LET body == [clue_number |-> currentQuestion + 1,
                  answer |-> trim(upperCaseAll(puzzle_clues[currentQuestion + 1].answer))]
         response == validateClueRoute(body)
     IN /\ response.status = 200 /\ response.body.correct
        /\ call' = [made |-> TRUE, route |-> "validate-clue", body |-> body,
                    response |-> response]
        /\ feedback' = message("Correct!", 0)
        /\ timers' = timers (+) SetToBag({[clue |-> response.body.clue_number,
                       pc |-> IF isStructureRevealed THEN "reveal" ELSE "advance",
                       k |-> 0, bound |-> -1]})
  /\ UNCHANGED <<puzzle_clues, clientVars, finalScore, fetches>>

ClickAnswered == \E wordIndex \in 0..(HintPieces - 1) : HandleWordClickAnswered(wordIndex)

HintNext ==
  \/ GiveHintAnswered
  \/ ClickAnswered
  \/ CheckAnswerAnswered
  \/ RevealTimer
  \/ WordTimer
  \/ AdvanceTimer

HintSpec == HintInit /\ [][HintNext]_vars

(***************************************************************************)
(* The end of a game (ScoreSpec): the last clue has just been answered     *)
(* correctly, after any number of wrong answers up to MaxWrongAnswers and  *)
(* with or without the structure hint of that clue; the timers checkAnswer *)
(* set run down to showResults.                                            *)
(***************************************************************************)

MaxWrongAnswers == 50   \* wrong answers counted before the last correct one

ScoreInit ==
  /\ puzzle_clues = GamePuzzle
  /\ currentQuestion = puzzleCluesLength - 1
  /\ wrongAnswers \in 0..MaxWrongAnswers
  /\ gameComplete = FALSE
  /\ feedback = message("Correct!", 0)
  /\ finalScore = Undefined
  /\ fetches = EmptyBag
  /\ call = NoCall
  /\ \E structureTaken \in BOOLEAN :
       LET q == puzzleCluesLength - 1
           hintData == getHintRoute([clue_number |-> q + 1, word_index |-> Undefined,
                                     hint_type |-> NoHintType]).body
       IN IF structureTaken
            THEN /\ wordStates = [p \in Questions |->
                      IF p = q
                        THEN [i \in 1..Len(hintData.word_structure) |->
                                initialWordState(hintData.word_structure[i])]
                        ELSE <<>>]
                 /\ structureRevealed = [p \in Questions |-> p = q]
                 /\ hintPenalties = hintData.penalty
                 /\ totalHintsUsed = 1
                 /\ timers = SetToBag({[clue |-> q + 1, pc |-> "reveal", k |-> 0, bound |-> -1]})
            ELSE /\ wordStates = [p \in Questions |-> <<>>]
                 /\ structureRevealed = [p \in Questions |-> FALSE]
                 /\ hintPenalties = 0
                 /\ totalHintsUsed = 0
                 /\ timers = SetToBag({[clue |-> q + 1, pc |-> "advance", k |-> 0, bound |-> -1]})

ScoreNext ==
  \/ RevealTimer
  \/ WordTimer
  \/ AdvanceTimer

ScoreSpec == ScoreInit /\ [][ScoreNext]_vars

(***************************************************************************)
(* Properties of the reveal state tracker in the game (Spec)               *)
(***************************************************************************)

\* The positions of the linking word and of the other words in word states cws
linkingPositions(cws) == {i \in 1..Len(cws) : cws[i].is_linking}
nonLinkingPositions(cws) == {i \in 1..Len(cws) : ~cws[i].is_linking}

allNonLinkingAt(cws, stages) == \A i \in nonLinkingPositions(cws) : cws[i].state \in stages
answerRevealBegun(cws) == \E i \in 1..Len(cws) : cws[i].state = "complete"

\* C1, as the spec states it: in the reveal state of every question the linking
\* word is selectable only while every non-linking word is at stage full_word.
C1_SelectableOnlyAtFullWord ==
  \A q \in Questions : \A l \in linkingPositions(wordStates[q]) :
    wordStates[q][l].clickable => allNonLinkingAt(wordStates[q], {"full_word"})

\* C1, amended: in the reveal state of every question whose solved answer is not
\* being revealed (no word is at stage complete), the linking word is selectable
\* exactly when every non-linking word is at stage full_word: not selectable while
\* one of them is at empty or first_letter, selectable as soon as the hint that
\* brings the last of them to full_word has been applied, in whatever order.
C1_LinkingSelectable ==
  \A q \in Questions : \A l \in linkingPositions(wordStates[q]) :
    ~answerRevealBegun(wordStates[q]) =>
      (wordStates[q][l].clickable <=> allNonLinkingAt(wordStates[q], {"full_word"}))

\* The hints on the two outer words have all been applied, the last one on the
\* first word, and the untouched linking word has become selectable.
C1_Unlocked ==
  /\ Len(wordStates[0]) = 3
  /\ wordStates[0][1].state = "full_word" /\ wordStates[0][3].state = "full_word"
  /\ wordStates[0][2].is_linking /\ wordStates[0][2].state = "empty"
  /\ wordStates[0][2].clickable
  /\ totalHintsUsed = 5
  /\ timers = EmptyBag

stageRank(state) ==
  CASE state = "empty" -> 0
    [] state = "first_letter" -> 1
    [] state = "full_word" -> 2
    [] state = "complete" -> 3

\* C2: applying the response to a word hint moves no word of any question to an
\* earlier stage of empty -> first_letter -> full_word -> complete than the word
\* already had, however the clicks, responses and submissions are interleaved.
C2_StageNeverRegresses ==
  [][(\E f \in BagToSet(fetches) :
        f.cont = "handleWordClick" /\ fetches' = fetches (-) SetToBag({f}))
     => \A q \in Questions :
          Len(wordStates'[q]) = Len(wordStates[q]) =>
            \A i \in 1..Len(wordStates[q]) :
              stageRank(wordStates'[q][i].state) >= stageRank(wordStates[q][i].state)]_vars

\* C4: whenever the current question changes, it moves on by one, and the timer
\* that moves it on was set by the correct answer to the clue being left, so that
\* every clue is presented before the game moves past it.
C4_NoClueSkipped ==
  [][currentQuestion' # currentQuestion =>
       /\ currentQuestion' = currentQuestion + 1
       /\ \E chain \in BagToSet(timers) :
            /\ timers' = timers (-) SetToBag({chain})
            /\ chain.pc = "advance"
            /\ chain.clue = currentQuestion + 1]_vars

\* C5: a structure response is applied (the word states initialised from it and
\* its penalty of 5 added) only to a question whose structure is not revealed yet,
\* hence at most once per question and before any word hint of that question.
C5_StructureAppliedOnce ==
  [][(\E f \in BagToSet(fetches) :
        /\ f.cont = "giveHint"
        /\ fetches' = fetches (-) SetToBag({f})
        /\ totalHintsUsed' = totalHintsUsed + 1)
     => ~structureRevealed[currentQuestion]]_vars

\* The fetch f of handleWordClick settles in this step with a response that is
\* counted and applied as a hint.
wordHintApplied(f) ==
  /\ f.cont = "handleWordClick"
  /\ fetches' = fetches (-) SetToBag({f})
  /\ getHintRoute(f.body).status = 200
  /\ totalHintsUsed' = totalHintsUsed + 1

\* The word state as initializeWordStates made it
emptyWord(wordState) ==
  [wordState EXCEPT !.state = "empty",
                    !.letters = [j \in 1..wordState.length |-> Blank],
                    !.clickable = ~wordState.is_linking]

\* What the player sees of a word: its letters, its stage, whether it takes clicks
displayed(wordState) ==
  <<wordState.letters, wordState.state, wordState.clickable>>

\* C11: when a full_word response is applied to a word that a first_letter
\* response brought to first_letter, the word is displayed (letters, stage,
\* clickable) exactly as if that one response had been applied to the word as
\* initialised, empty.
C11_FirstThenFullIsFull ==
  [][\A f \in BagToSet(fetches) :
       (/\ wordHintApplied(f)
        /\ f.hintType = "full_word"
        /\ f.wordIndex < Len(getCurrentWordStates)
        /\ getCurrentWordStates[f.wordIndex + 1].state = "first_letter")
       => LET hintData == getHintRoute(f.body).body
              fromEmpty == [getCurrentWordStates EXCEPT ![f.wordIndex + 1] = emptyWord(@)]
          IN displayed(wordStates'[currentQuestion][f.wordIndex + 1])
               = displayed(checkLinkingWordAvailability(
                             updateWordState(fromEmpty, f.wordIndex, hintData))[f.wordIndex + 1])]_vars

\* C11 happens: the structure, then first_letter and full_word on the first word
\* of the first clue, and nothing else.
C11_FirstWordFullAfterTwoHints ==
  /\ currentQuestion = 0
  /\ totalHintsUsed = 3
  /\ BagCardinality(fetches) = 0
  /\ Len(wordStates[0]) = 3
  /\ wordStates[0][1].state = "full_word"
  /\ wordStates[0][1].letters = <<"'", "A">>
  /\ wordStates[0][2].state = "empty"
  /\ wordStates[0][3].state = "empty"

\* The fields of a word state that no hint response may change
identity(wordState) ==
  <<wordState.word_index, wordState.length, wordState.is_linking>>

\* A word hint response leaves every word but the one at (question q, position t)
\* as it was, but for the clickable flag of the linking word of question q; of
\* the word at (q, t) it keeps the identity.
onlyTargetChanges(q, t) ==
  /\ \A p \in Questions : Len(wordStates'[p]) = Len(wordStates[p])
  /\ \A p \in Questions : \A i \in 1..Len(wordStates[p]) :
       /\ identity(wordStates'[p][i]) = identity(wordStates[p][i])
       /\ (p # q \/ i # t) =>
            /\ wordStates'[p][i].letters = wordStates[p][i].letters
            /\ wordStates'[p][i].state = wordStates[p][i].state
            /\ (p # q \/ ~wordStates[p][i].is_linking) =>
                 wordStates'[p][i].clickable = wordStates[p][i].clickable

CompleteOtherWordsFirst == "Complete other words first to unlock the linking word"
NoMoreHintsAvailable == "This word is not available for hints"

\* C13: a click on a word that is not clickable sends no request and changes
\* neither the word states nor hintPenalties nor totalHintsUsed (nor anything but
\* the message); the message is the one about completing the other words first
\* when the word is the linking word, and the one about no hint being available
\* when it is a non-linking word already fully revealed.
C13_RefusedClick ==
  [][\A wordIndex \in WordIndexes :
       (/\ wordIndex < Len(getCurrentWordStates)
        /\ ~getCurrentWordStates[wordIndex + 1].clickable
        /\ HandleWordClick(wordIndex))
       => LET wordState == getCurrentWordStates[wordIndex + 1] IN
          /\ fetches' = fetches
          /\ UNCHANGED <<wordStates, structureRevealed, hintPenalties, totalHintsUsed>>
          /\ UNCHANGED <<currentQuestion, wrongAnswers, gameComplete, timers>>
          /\ wordState.is_linking => feedback'.text = CompleteOtherWordsFirst
          /\ (~wordState.is_linking /\ wordState.state \in {"full_word", "complete"})
               => feedback'.text = NoMoreHintsAvailable]_vars

\* C13 happens: the first word of the first clue, fully revealed by two hints
\* and no longer clickable, was clicked again and the click refused.
C13_RevealedWordClicked ==
  /\ currentQuestion = 0
  /\ Len(wordStates[0]) = 3
  /\ wordStates[0][1].state = "full_word"
  /\ ~wordStates[0][1].clickable
  /\ wordStates[0][2].clickable = FALSE
  /\ feedback.text = NoMoreHintsAvailable
  /\ totalHintsUsed = 3
  /\ BagCardinality(fetches) = 0

\* This step is handleWordClick sending a hint request for the linking word.
linkingRequestSent ==
  \E wordIndex \in WordIndexes :
    /\ wordIndex < Len(getCurrentWordStates)
    /\ getCurrentWordStates[wordIndex + 1].is_linking
    /\ fetches' # fetches
    /\ HandleWordClick(wordIndex)

\* Every non-linking word of the current question is at one of the stages
nonLinkingWordsAt(stages) ==
  \A i \in 1..Len(getCurrentWordStates) :
    ~getCurrentWordStates[i].is_linking => getCurrentWordStates[i].state \in stages

\* This step is handleWordClick refusing a click on the linking word, and the
\* route would have answered the request for either kind of hint on that word.
refusedLinkingHintAccepted ==
  \A wordIndex \in WordIndexes :
    (/\ wordIndex < Len(getCurrentWordStates)
     /\ getCurrentWordStates[wordIndex + 1].is_linking
     /\ ~getCurrentWordStates[wordIndex + 1].clickable
     /\ HandleWordClick(wordIndex))
    => \A kind \in {"first_letter", "full_word"} :
         LET response == getHintRoute([clue_number |-> currentQuestion + 1,
                                       word_index |-> Some(wordIndex),
                                       hint_type |-> kind])
         IN /\ response.status = 200
            /\ response.body.revealed_word.is_linking
            /\ response.body.penalty = 5

\* C14 as stated: the client sends a hint request for the linking word only when
\* every non-linking word of the current question is at full_word; the server
\* accepts a hint for the linking word that the client refuses to ask for.
C14_SentOnlyAtFullWord ==
  [][/\ linkingRequestSent => nonLinkingWordsAt({"full_word"})
     /\ refusedLinkingHintAccepted]_vars

\* C14, amended: the client sends a hint request for the linking word only when
\* every non-linking word of the current question is at full_word or, the answer
\* being revealed after a correct submission, already at complete; the server
\* accepts a hint for the linking word that the client refuses to ask for.
C14_SentOnlyOnceRevealed ==
  [][/\ linkingRequestSent => nonLinkingWordsAt({"full_word", "complete"})
     /\ refusedLinkingHintAccepted]_vars

\* C14 happens: a first_letter request for the linking word of the first clue is
\* pending, both outer words being at full_word.
C14_LinkingRequestPending ==
  /\ currentQuestion = 0
  /\ Len(wordStates[0]) = 3
  /\ wordStates[0][1].state = "full_word"
  /\ wordStates[0][3].state = "full_word"
  /\ \E f \in BagToSet(fetches) :
       f.cont = "handleWordClick" /\ f.isLinking /\ f.hintType = "first_letter"

\* This step settles a structure request, which may initialise the word states
\* of the current question anew.
structureSettles ==
  \E f \in BagToSet(fetches) : f.cont = "giveHint" /\ fetches' = fetches (-) SetToBag({f})

\* C15: every non-linking word is clickable as long as it is at empty or
\* first_letter, and a non-linking word that has reached full_word is not
\* clickable in any later state of the question, the word states not being
\* initialised anew.
C15_NonLinkingSelectable ==
  [][\A q \in Questions : \A i \in 1..Len(wordStates[q]) :
       ~wordStates[q][i].is_linking =>
         /\ wordStates[q][i].state \in {"empty", "first_letter"} => wordStates[q][i].clickable
         /\ (/\ wordStates[q][i].state = "full_word"
             /\ ~wordStates[q][i].clickable
             /\ ~structureSettles)
            => ~wordStates'[q][i].clickable]_vars

\* The answer of question q stands fully revealed: every word is complete, not
\* clickable and shows no placeholder.
answerRevealed(q) ==
  /\ Len(wordStates[q]) > 0
  /\ \A i \in 1..Len(wordStates[q]) :
       /\ wordStates[q][i].state = "complete"
       /\ ~wordStates[q][i].clickable
       /\ \A j \in 1..Len(wordStates[q][i].letters) : wordStates[q][i].letters[j] # Blank

\* C16: once the reveal that follows a correct submission has brought every word
\* of a question to complete, not clickable and without placeholder, the words
\* of that question stay so, the word states not being initialised anew.
C16_CompleteIsTerminal ==
  [][\A q \in Questions :
       (answerRevealed(q) /\ ~structureSettles) => answerRevealed(q)']_vars

\* C17: a hint request (for the structure or for a word) that ends in a transport
\* failure or in an error response leaves wordStates, structureRevealed,
\* hintPenalties and totalHintsUsed as they are when the failure is handled.
C17_FailedHintChangesNothing ==
  [][\A f \in BagToSet(fetches) :
       (/\ f.cont \in {"giveHint", "handleWordClick"}
        /\ FetchFails(f) \/ FetchAnswersError(f))
       => UNCHANGED <<wordStates, structureRevealed, hintPenalties, totalHintsUsed>>]_vars

\* C17 happens: with the structure of the first clue revealed and a first letter
\* shown, a word hint request was answered with an error.
C17_WordHintRefusedByServer ==
  /\ currentQuestion = 0
  /\ feedback = message("Hint error", 0)
  /\ structureRevealed[0]
  /\ totalHintsUsed = 2
  /\ hintPenalties = 8
  /\ Len(wordStates[0]) = 3
  /\ wordStates[0][1].state = "first_letter"
  /\ BagCardinality(fetches) = 0

\* This step settles the hint request f with a response the client applies: the
\* server answers it with a hint, and the client shows neither a failure of the
\* fetch nor an error.
hintResponseApplied(f) ==
  /\ f.cont \in {"giveHint", "handleWordClick"}
  /\ fetches' = fetches (-) SetToBag({f})
  /\ feedback' \notin {message("Failed to get hint. Try again.", 0), message("Hint error", 0)}
  /\ getHintRoute(f.body).status = 200

\* C18: hintPenalties and totalHintsUsed start at 0; every hint response applied
\* adds its penalty to hintPenalties and one to totalHintsUsed, and no other step
\* changes either, so that they are the sum of the penalties and the number of
\* the hint responses applied since startGame.
C18_PenaltiesAreTheSum ==
  /\ hintPenalties = 0 /\ totalHintsUsed = 0
  /\ [][IF \E f \in BagToSet(fetches) : hintResponseApplied(f)
          THEN \E f \in BagToSet(fetches) :
                 /\ hintResponseApplied(f)
                 /\ hintPenalties' = hintPenalties + getHintRoute(f.body).body.penalty
                 /\ totalHintsUsed' = totalHintsUsed + 1
          ELSE UNCHANGED <<hintPenalties, totalHintsUsed>>]_vars

\* C18 happens: the structure and the two hints on one outer word were applied
\* and a request for the other outer word failed.
C18_ThreeHintsCounted ==
  /\ totalHintsUsed = 3
  /\ hintPenalties = 11
  /\ feedback = message("Failed to get hint. Try again.", 0)
  /\ BagCardinality(fetches) = 0
  /\ currentQuestion = 0

\* This step handles the response to the submission f, which the server found
\* incorrect.
incorrectSubmissionHandled(f) ==
  /\ f.cont = "checkAnswer"
  /\ fetches' = fetches (-) SetToBag({f})
  /\ feedback' = message("Try again!", 0)
  /\ ~validateClueRoute(f.body).body.correct

\* C19: handling an incorrect submission leaves the game on the same question
\* with the game screen up for further submissions, adds exactly one to
\* wrongAnswers, starts no timer, and changes neither the word states nor
\* structureRevealed nor hintPenalties nor totalHintsUsed.
C19_IncorrectSubmission ==
  [][\A f \in BagToSet(fetches) :
       incorrectSubmissionHandled(f)
       => /\ currentQuestion' = currentQuestion
          /\ wrongAnswers' = wrongAnswers + 1
          /\ gameScreenShown' = gameScreenShown
          /\ timers' = timers
          /\ UNCHANGED <<wordStates, structureRevealed, hintPenalties, totalHintsUsed>>]_vars

\* C19 happens: one wrong answer was counted on the first clue, whose structure
\* and one first letter stay revealed, and the game screen is up.
C19_WrongAnswerCounted ==
  /\ wrongAnswers = 1
  /\ feedback = message("Try again!", 0)
  /\ currentQuestion = 0
  /\ gameScreenShown
  /\ structureRevealed[0]
  /\ hintPenalties = 8
  /\ Len(wordStates[0]) = 3
  /\ wordStates[0][3].state = "first_letter"

(***************************************************************************)
(* Properties of the hint policy driven directly (PolicySpec)              *)
(***************************************************************************)

\* The stored clue and the words the policy splits its answer into
storedAnswer == puzzle_clues[1].answer
storedWords == split(storedAnswer)
storedLinkingWord == puzzle_clues[1].linking_word

\* Word i (from 0) is the seam of the clue: the first word that is neither the
\* first nor the last one and whose text is the linking word.
isSeam(words, linkingWord, i) ==
  /\ 0 < i /\ i < Len(words) - 1
  /\ words[i + 1] = linkingWord
  /\ \A j \in 1..(i - 1) : words[j + 1] # linkingWord

\* How a character of the answer is displayed once revealed
shown(char) == IF isLetter(char) THEN toUpperCase(char) ELSE char

\* The last call, by kind of request and outcome
hintCalled(c) == c.made /\ c.route = "get-hint"
structureAnswered(c) ==
  hintCalled(c) /\ c.body.word_index = Undefined /\ c.response.status = 200
wordHintAnswered(c, kinds) ==
  /\ hintCalled(c) /\ c.body.word_index # Undefined /\ isArrayIndex(c.body.word_index)
  /\ c.response.status = 200 /\ c.body.hint_type \in kinds

\* Every character of word that is no letter stands as itself in letters.
punctuationShown(word, letters) ==
  /\ Len(letters) = Len(word)
  /\ \A j \in 1..Len(word) : ~isLetter(word[j]) => letters[j] = word[j]

\* C3: every character of the answer that is no letter is shown as itself, never
\* as '_', in every letter sequence a response of get-hint or get-hint-state
\* carries and in the letters of the client's word states.
C3_PunctuationPreRevealed ==
  /\ (call.made /\ call.response.status = 200
        /\ "word_structure" \in DOMAIN call.response.body) =>
       \A i \in 1..Len(call.response.body.word_structure) :
         punctuationShown(storedWords[i], call.response.body.word_structure[i].letters)
  /\ \A i \in 1..Len(wordStates[0]) :
       punctuationShown(storedWords[i], wordStates[0][i].letters)

\* The hint kinds and word indexes a word hint request may carry
validKinds == {"first_letter", "full_word", "check_linking_available"}
invalidWordHint(c) ==
  /\ hintCalled(c) /\ c.body.word_index # Undefined
  /\ \/ ~isArrayIndex(c.body.word_index)
     \/ c.body.word_index[1] \notin 0..(Len(storedWords) - 1)
     \/ c.body.hint_type \notin validKinds

\* C6: a word hint request with an index outside the words of the answer or with
\* an unknown hint kind is answered with status 400 and an error that carries no
\* penalty, and the client that receives it leaves its word states,
\* hintPenalties and totalHintsUsed as they were.
C6_InvalidRequestCharged ==
  [][(call' # call /\ invalidWordHint(call')) =>
       /\ call'.response.status = 400
       /\ "error" \in DOMAIN call'.response.body
       /\ "penalty" \notin DOMAIN call'.response.body
       /\ UNCHANGED <<wordStates, hintPenalties, totalHintsUsed>>]_vars

\* C7: a structure reveal costs 5; a first_letter or full_word hint costs 5 on
\* the linking word and 3 on every other word.
C7_HintCost ==
  /\ structureAnswered(call) => call.response.body.penalty = 5
  /\ wordHintAnswered(call, {"first_letter", "full_word"}) =>
       call.response.body.penalty =
         IF isSeam(storedWords, storedLinkingWord, call.body.word_index[1]) THEN 5 ELSE 3

\* The whole linking word was revealed for 5 after the structure reveal for 5.
C7_LinkingFullWord ==
  /\ wordHintAnswered(call, {"full_word"})
  /\ isSeam(storedWords, storedLinkingWord, call.body.word_index[1])
  /\ call.response.body.penalty = 5
  /\ hintPenalties = 10

\* The words of an answer separated by whitespace: the maximal runs of
\* characters other than the space.
whitespaceWordCount(answer) ==
  Cardinality({i \in 1..Len(answer) :
                 answer[i] # " " /\ (i = 1 \/ answer[i - 1] = " ")})

\* C8: the structure reveal holds one entry per whitespace-separated word of the
\* answer, runs of spaces and leading or trailing spaces included.
C8_WordCount ==
  structureAnswered(call) =>
    Len(call.response.body.word_structure) = whitespaceWordCount(storedAnswer)

\* C9: the structure reveal holds for every word of the answer its length, the
\* stage empty, a letter sequence with a placeholder for every letter, the linking
\* flag on the seam alone (on no word when the clue has no seam), and selectable
\* exactly where the linking flag is not set.
C9_StructureEntries ==
  structureAnswered(call) =>
    LET ws == call.response.body.word_structure IN
    /\ Len(ws) = Len(storedWords)
    /\ Cardinality({i \in 1..Len(ws) : ws[i].is_linking}) <= 1
    /\ \A i \in 1..Len(ws) :
         /\ ws[i].word_index = i - 1
         /\ ws[i].length = Len(storedWords[i])
         /\ ws[i].state = "empty"
         /\ Len(ws[i].letters) = Len(storedWords[i])
         /\ \A j \in 1..Len(storedWords[i]) :
              isLetter(storedWords[i][j]) => ws[i].letters[j] = Blank
         /\ ws[i].is_linking = isSeam(storedWords, storedLinkingWord, i - 1)
         /\ ws[i].clickable = ~ws[i].is_linking

\* The structure of an answer whose first, second and third word all are the
\* linking word: the second one alone is flagged and not selectable.
C9_FirstInteriorMatch ==
  /\ structureAnswered(call)
  /\ Len(storedWords) = 4
  /\ \A i \in 1..3 : storedWords[i] = storedLinkingWord
  /\ ~call.response.body.word_structure[1].is_linking
  /\ call.response.body.word_structure[2].is_linking
  /\ ~call.response.body.word_structure[2].clickable
  /\ ~call.response.body.word_structure[3].is_linking
  /\ call.response.body.word_structure[3].clickable

\* letters shows the first letter of word, wherever it stands, and a placeholder
\* for every other letter.
firstLetterShown(word, letters) ==
  \E j \in 1..Len(word) :
    /\ isLetter(word[j])
    /\ \A k \in 1..(j - 1) : ~isLetter(word[k])
    /\ letters[j] = shown(word[j])
    /\ \A k \in 1..Len(word) : (k # j /\ isLetter(word[k])) => letters[k] = Blank

\* A target word that holds a letter shows its first one; a target word that
\* holds none comes back as it is.
firstLetterIfAny(word, letters) ==
  IF \E j \in 1..Len(word) : isLetter(word[j])
    THEN firstLetterShown(word, letters)
    ELSE letters = word

\* The letter pattern of a word hint response; exactlyOne says whether a
\* first_letter hint has to show a letter of every target word.
wordHintPattern(exactlyOne) ==
  wordHintAnswered(call, {"first_letter", "full_word"}) =>
    LET ws == call.response.body.word_structure
        target == call.body.word_index[1] + 1
    IN /\ Len(ws) = Len(storedWords)
       /\ \A i \in 1..Len(ws) :
            LET word == storedWords[i]
                letters == ws[i].letters
            IN /\ Len(letters) = Len(word)
               /\ IF i = target
                    THEN /\ ws[i].state = call.body.hint_type
                         /\ call.body.hint_type = "first_letter" =>
                              IF exactlyOne THEN firstLetterShown(word, letters)
                                            ELSE firstLetterIfAny(word, letters)
                         /\ call.body.hint_type = "full_word" =>
                              \A j \in 1..Len(word) : letters[j] = shown(word[j])
                    ELSE /\ ws[i].state = "empty"
                         /\ \A j \in 1..Len(word) : isLetter(word[j]) => letters[j] = Blank

\* C10, as the spec states it, on an answer whose words are separated by single
\* spaces: for the target word first_letter shows exactly one letter, the first
\* alphabetic character, and a placeholder for every other letter; full_word shows
\* every character; every other word comes back with all its letters as
\* placeholders and at stage empty.
C10_ExactlyOneLetter ==
  (\A i \in 1..Len(storedWords) : storedWords[i] # <<>>) =>
    wordHintPattern(TRUE)

\* C10, amended: for the target word first_letter shows, in upper case, the first
\* alphabetic character if the word holds one, and no letter if it holds none,
\* with a placeholder for every other letter; full_word shows every character,
\* letters in upper case; every other word comes back with all its letters as
\* placeholders and at stage empty.
C10_LetterPattern == wordHintPattern(FALSE)

\* A first_letter hint on a word that begins with punctuation showed its second
\* character, the first letter, and left the letter after it and the other word
\* of the answer as placeholders.
C10_FirstLetterAfterPunctuation ==
  /\ wordHintAnswered(call, {"first_letter"})
  /\ structureRevealed[0]
  /\ storedWords = << <<"A">>, <<"'", "b", "A">> >>
  /\ call.body.word_index[1] = 1
  /\ call.response.body.word_structure[2].letters = <<"'", "B", Blank>>
  /\ call.response.body.word_structure[1].letters = <<Blank>>

\* The last call asks whether the linking word is available, for a word index
\* (integer or not) within the words of the answer.
linkingAvailableAsked(c) ==
  /\ hintCalled(c) /\ c.body.word_index # Undefined
  /\ c.body.hint_type = "check_linking_available"
  /\ c.body.word_index[1] \in 0..(Len(storedWords) - 1)

\* C21: a request of kind check_linking_available for a word index in range is
\* answered with the fixed confirmation (linking_available true, penalty 0) that
\* carries no letter, and it changes neither the stored clue nor the caller's
\* word states nor its hintPenalties.
C21_LinkingAvailableCheck ==
  [][(call' # call /\ linkingAvailableAsked(call')) =>
       /\ call'.response.status = 200
       /\ call'.response.body.hint_type = "linking_available_check"
       /\ call'.response.body.linking_available = TRUE
       /\ call'.response.body.penalty = 0
       /\ "word_structure" \notin DOMAIN call'.response.body
       /\ "revealed_word" \notin DOMAIN call'.response.body
       /\ UNCHANGED <<puzzle_clues, wordStates, structureRevealed, hintPenalties>>]_vars

\* C21 happens: after the structure reveal the check was asked for the last word
\* of an answer of several words and answered.
C21_CheckAnswered ==
  /\ linkingAvailableAsked(call)
  /\ call.body.word_index = Some(Len(storedWords) - 1)
  /\ Len(storedWords) > 1
  /\ call.response.status = 200
  /\ structureRevealed[0]
  /\ hintPenalties = 5

\* C24: a hint response, structure or word hint, changes the word states of the
\* question it was requested for only: the step that applies the response to
\* a request for clue q + 1 leaves wordStates of every question but q as it
\* was, also when currentQuestion has advanced since the request was sent.
C24_AppliedToRequestedQuestion ==
  [][\A f \in BagToSet(fetches) :
       (hintResponseApplied(f) /\ wordStates' # wordStates) =>
         \A q \in Questions :
           wordStates'[q] # wordStates[q] => q = f.body.clue_number - 1]_vars

\* C25: for every word at most one first_letter hint and at most one full_word
\* hint are ever charged: on the first question, a first_letter response is
\* charged only for a word still at empty and a full_word response only for a
\* word at first_letter, so that a word at full_word was charged two hints.
C25_ChargedOncePerStage ==
  [][\A f \in BagToSet(fetches) :
       (currentQuestion = 0 /\ wordHintApplied(f) /\ hintPenalties' > hintPenalties) =>
         LET wordState == getCurrentWordStates[f.wordIndex + 1] IN
         /\ f.hintType = "first_letter" => wordState.state = "empty"
         /\ f.hintType = "full_word" => wordState.state = "first_letter"]_vars

\* C26: once the caller has applied the response of a word hint for a word it
\* holds, its letters of that word are the letters the response carries for
\* the word in word_structure, whatever characters the word is made of (the
\* stored answer being one of words separated by single spaces).
C26_ClientLettersAreServerLetters ==
  (/\ wordHintAnswered(call, {"first_letter", "full_word"})
   /\ \A k \in 1..Len(storedWords) : storedWords[k] # <<>>
   /\ call.body.word_index[1] \in 0..(Len(getCurrentWordStates) - 1)) =>
    LET i == call.body.word_index[1] + 1 IN
    getCurrentWordStates[i].letters = call.response.body.word_structure[i].letters

(***************************************************************************)
(* Properties of the final score (ScoreSpec)                               *)
(***************************************************************************)

\* C20: the score showResults displays is max(0, 100 - 2 * wrongAnswers -
\* hintPenalties); it lies in 0..100, and it is 100 for a game with no hint and
\* no wrong answer.
C20_FinalScore ==
  finalScore # Undefined =>
    LET raw == 100 - 2 * wrongAnswers - hintPenalties IN
    /\ finalScore = Some(IF raw > 0 THEN raw ELSE 0)
    /\ finalScore[1] \in 0..100
    /\ (wrongAnswers = 0 /\ hintPenalties = 0) => finalScore = Some(100)

\* C20 happens: the results are shown for a game whose penalties exceed 100, and
\* the score is 0.
C20_ScoreClampedAtZero ==
  /\ gameComplete
  /\ finalScore = Some(0)
  /\ 2 * wrongAnswers + hintPenalties > 100

(***************************************************************************)
(* Properties of repeated structure reveals (RevealSpec)                   *)
(***************************************************************************)

\* This step answers a structure reveal that is not the first of the run.
structureRevealedAgain ==
  /\ call' # call
  /\ call.structure # Undefined
  /\ call'.body.word_index = Undefined

RECURSIVE lettersOf(_)
lettersOf(word) ==
  IF word = <<>> THEN <<>>
  ELSE IF isLetter(Head(word)) THEN <<toUpperCase(Head(word))>> \o lettersOf(Tail(word))
  ELSE lettersOf(Tail(word))

RECURSIVE lettersOfEach(_)
lettersOfEach(words) ==
  IF words = <<>> THEN <<>>
  ELSE IF lettersOf(Head(words)) = <<>> THEN lettersOfEach(Tail(words))
  ELSE <<lettersOf(Head(words))>> \o lettersOfEach(Tail(words))

wordsOf(text) == lettersOfEach(split(text))

\* The result carries the answer of this stored clue.
carriesAnswer(result) ==
  "full_answer" \in DOMAIN result \/ "linking_word" \in DOMAIN result \/ "answer" \in DOMAIN result

\* The result carries exactly the full answer and linking word of this clue.
carriesAnswerOf(result, clue) ==
  /\ "full_answer" \in DOMAIN result /\ "linking_word" \in DOMAIN result
  /\ result.full_answer = clue.answer
  /\ result.linking_word = clue.linking_word
  /\ result.clue_number = clue.clue_number

todayAnswered(c) == c.made /\ c.route = "today"
clueValidated(c) == c.made /\ c.route = "validate-clue"
allValidated(c) == c.made /\ c.route = "validate-all"

\* C23: the response of /today carries no answer and no linking word for any
\* clue; a response of /validate-clue carries full_answer and linking_word only
\* if the submitted answer has the words of the stored answer of the clue named
\* (upper-cased, without non-letters, whatever the spacing), and whenever it
\* has them and the request names a stored clue, and then they are those of
\* that clue; likewise for each of the five results of /validate-all.
C23_AnswerOnlyWhenCorrect ==
  /\ todayAnswered(call) =>
       /\ ~carriesAnswer(call.response.body)
       /\ call.response.status = 200 =>
            \A i \in DOMAIN call.response.body.clues :
              ~carriesAnswer(call.response.body.clues[i])
  /\ clueValidated(call) =>
       LET n == call.body.clue_number
           named == n \in 1..Len(puzzle_clues)
           same == named /\ wordsOf(call.body.answer) = wordsOf(puzzle_clues[n].answer)
       IN /\ carriesAnswer(call.response.body) => same
          /\ same => carriesAnswerOf(call.response.body, puzzle_clues[n])
  /\ allValidated(call) =>
       /\ ~carriesAnswer(call.response.body)
       /\ call.response.status # 200 =>
            Len(call.body.answers) # RequiredClues \/ Len(puzzle_clues) # RequiredClues
       /\ call.response.status = 200 =>
            \A i \in 1..RequiredClues :
              LET result == call.response.body.results[i]
                  same == wordsOf(call.body.answers[i]) = wordsOf(puzzle_clues[i].answer)
              IN /\ carriesAnswer(result) => same
                 /\ same => carriesAnswerOf(result, puzzle_clues[i])

\* C23 happens: an answer typed in lower case with spaces around it was
\* validated against the stored answer "A B" and the full answer was sent.
C23_SpacedAnswerAccepted ==
  /\ clueValidated(call)
  /\ call.body.answer = <<" ", "A", " ", "b">>
  /\ call.response.status = 200
  /\ call.response.body.correct
  /\ call.response.body.full_answer = <<"A", " ", "B">>

(***************************************************************************)
(* Properties of one question played to the results (HintSpec)            *)
(***************************************************************************)

\* C27: a word whose state is full_word, the linking word included, is never
\* clickable.
C27_FullWordNotClickable ==
  \A q \in Questions : \A i \in 1..Len(wordStates[q]) :
    wordStates[q][i].state = "full_word" => ~wordStates[q][i].clickable

\* The sums showResults would find over the questions from q on
RECURSIVE summariesFrom(_)
summariesFrom(q) ==
  IF q >= puzzleCluesLength THEN [hintsUsed |-> 0, totalPenalty |-> 0]
  ELSE [hintsUsed |-> getQuestionHintSummary(q).hintsUsed + summariesFrom(q + 1).hintsUsed,
        totalPenalty |-> getQuestionHintSummary(q).totalPenalty
                           + summariesFrom(q + 1).totalPenalty]

\* C28: when the results are shown, the penalties of the hint summaries of all
\* questions add up to hintPenalties and their hints to totalHintsUsed (in a
\* game whose every clue was answered once: no timer is left and currentQuestion
\* is the number of clues).
C28_SummariesAddUp ==
  (finalScore # Undefined /\ timers = EmptyBag /\ currentQuestion = puzzleCluesLength) =>
    /\ summariesFrom(0).totalPenalty = hintPenalties
    /\ summariesFrom(0).hintsUsed = totalHintsUsed

\* This step runs showResults: the advance timer takes currentQuestion past
\* the last clue.
showResultsRuns ==
  currentQuestion' = currentQuestion + 1 /\ currentQuestion' >= puzzleCluesLength

\* C29: in one game showResults runs, and with it the result is submitted, at
\* most once: it never runs in a game that is complete already.
C29_ResultsShownOnce ==
  [][showResultsRuns => ~gameComplete]_vars

(***************************************************************************)
(* Properties of the submitted result (ScoreSpec)                          *)
(***************************************************************************)

MaxCompletionTime == 3   \* seconds a game may have taken

\* C30: the result showResults submits at the end of a game, whatever the final
\* score and for every positive completion time, is not refused by
\* /submit-result for a missing score or completion time.
C30_ResultAccepted ==
  finalScore # Undefined =>
    \A totalTime \in 1..MaxCompletionTime :
      submitResultRoute(submitResults(finalScore[1], totalTime)).status # 400

====
